---- MODULE Spec2Model ----
(***************************************************************************)
(* The admin back-office of the Panchayath Management System: the tables,  *)
(* row-level-security policies and triggers of the admin migration, and    *)
(* the handlers of AdminUserManagement.tsx and SystemSettings.tsx that     *)
(* write to them.                                                          *)
(*                                                                         *)
(* A policy is read as declared: its USING predicate over admin_users,     *)
(* evaluated for auth.uid() on the state the statement starts from.  For   *)
(* SELECT, UPDATE and DELETE a false predicate hides the rows (the         *)
(* statement touches none and raises nothing); for INSERT, and for the     *)
(* INSERT arm of an upsert, it is the WITH CHECK of the new row and        *)
(* raises.  Every store call is one statement in its own transaction: it   *)
(* commits whole or changes nothing.  Row-level AFTER triggers run inside  *)
(* the statement.                                                          *)
(***************************************************************************)
EXTENDS Integers, Sequences, FiniteSets, TLC

\* ---------------------------------------------------------------- bounds
MaxUsers == 4      \* admin_users ids ever generated (3 seeded + new ones)
MaxTime == 3           \* now() stops here under Spec
MaxGrantTime == 4      \* ... under GrantSpec
MaxSettingsTime == 3   \* ... under SettingsSpec
MaxHistory == 2        \* audit rows of a drawn history, short of the fetch limit

\* ------------------------------------------------------------- constants
NoUser == 0                          \* auth.uid() IS NULL / a NULL uuid column
NULL == [null |-> TRUE]              \* a NULL jsonb / row value
UserIds == 1..MaxUsers
Uids == 0..MaxUsers                  \* values auth.uid() can take
Roles == {"super_admin", "admin", "local_admin"}
Clients == {"A", "B"}                \* browser tabs holding component state

\* values typed into the identity form
UsernameInputs == {"", "alice"}
EmailInputs == {"", "alice@panchayath.in"}
PasswordInputs == {"", "pw"}
RoleInputs == {"super_admin", "admin"}

\* rows of admin_permissions carried by the model (a part of the seed)
admin_permissions ==
  { [id |-> 1, module |-> "users", action |-> "read"],
    [id |-> 2, module |-> "tasks", action |-> "delete"],
    [id |-> 3, module |-> "users", action |-> "create"] }
PermissionIds == { p.id : p \in admin_permissions }

\* keys of system_settings carried by the model; custom_settings is not seeded
SettingKeys == {"maintenance_mode", "custom_settings"}
SettingValues == {0, 1}

VARIABLES
  admin_users,              \* id -> row, for the rows that exist
  admin_user_permissions,   \* set of grant rows
  system_settings,          \* setting_key -> row, for the keys that exist
  audit_logs,               \* sequence of audit rows, in insertion order
  now,                      \* the store's clock
  nextId,                   \* next generated admin_users id
  users,                    \* (id, is_active) pairs some client's user list holds
  settings,                 \* client -> in-memory settings map
  saving,                   \* the permission save in flight (its arguments, the delete's
                            \* result and the grants it found), or NULL
  last,                     \* what the last handler call showed its caller
  logs,                     \* the audit viewer's fetched rows
  filters,                  \* the audit viewer's filters
  filteredLogs,             \* the audit viewer's displayed rows
  permissions               \* the capability list a user-management view fetched

vars == << admin_users, admin_user_permissions, system_settings, audit_logs,
           now, nextId, users, settings, saving, last, logs, filters, filteredLogs,
           permissions >>

viewer == << logs, filters, filteredLogs >>

tables == << admin_users, admin_user_permissions, system_settings, audit_logs >>

\* ------------------------------------------------------------ seed data
SeedUser(i, name, mail, hash, r) ==
  [ id |-> i, username |-> name, email |-> mail, password_hash |-> hash,
    role |-> r, is_active |-> TRUE, created_at |-> 0, updated_at |-> 0 ]

SeedUsers ==
  ( 1 :> SeedUser(1, "superadmin", "super@admin.com",
                  "$2b$10$example_hash_for_password123", "super_admin") ) @@
  ( 2 :> SeedUser(2, "admin1", "admin1@system.com",
                  "$2b$10$example_hash_for_admin123", "admin") ) @@
  ( 3 :> SeedUser(3, "localadmin", "local@admin.com",
                  "$2b$10$example_hash_for_local123", "local_admin") )

SeedSettings ==
  ( "maintenance_mode" :>
      [ setting_value |-> 0, updated_by |-> NoUser, created_at |-> 0, updated_at |-> 0 ] )

\* ------------------------------------------------------------- policies
\* ActiveAdmin() without the is_active test
ActiveAdmin_anyRow(uid) == uid \in DOMAIN admin_users

\* EXISTS (SELECT 1 FROM admin_users au WHERE au.id = auth.uid() AND au.is_active)
ActiveAdmin(uid) ==
  uid \in DOMAIN admin_users /\ admin_users[uid].is_active

\* SuperAdmin() taking the admin role too
SuperAdmin_orAdmin(uid) ==
  ActiveAdmin(uid) /\ admin_users[uid].role \in {"super_admin", "admin"}

\* ... AND au.role = 'super_admin'
SuperAdmin(uid) ==
  ActiveAdmin(uid) /\ admin_users[uid].role = "super_admin"

ManageAllUsers(uid) == SuperAdmin(uid)          \* admin_users, FOR ALL
ViewUsers(uid) == ActiveAdmin(uid)              \* admin_users, FOR SELECT
ViewPermissions(uid) == ActiveAdmin(uid)        \* admin_permissions, FOR SELECT
ManageUserPermissions(uid) == SuperAdmin(uid)   \* admin_user_permissions, FOR ALL
ManageSystemSettings_super(uid) == SuperAdmin(uid)   \* the role gate of the other tables
ManageSystemSettings(uid) == ActiveAdmin(uid)   \* system_settings, FOR ALL
ViewAuditLogs(uid) == ActiveAdmin(uid)          \* audit_logs, FOR SELECT

\* ------------------------------------------------------------- triggers
\* BEFORE UPDATE ... update_updated_at_column()
update_updated_at_column(new) == [new EXCEPT !.updated_at = now]

\* COALESCE(NEW.id::text, OLD.id::text)
CoalesceId(new, old) == IF new # NULL THEN ToString(new.id) ELSE ToString(old.id)

\* log_admin_action() keeping the new row of an UPDATE only
log_admin_action_updateOnly(uid, TG_OP, TG_TABLE_NAME, old, new) ==
  [ user_id |-> uid,
    action |-> TG_OP,
    table_name |-> TG_TABLE_NAME,
    record_id |-> CoalesceId(new, old),
    old_values |-> IF TG_OP = "DELETE" THEN old ELSE NULL,
    new_values |-> IF TG_OP = "UPDATE" THEN new ELSE NULL,
    created_at |-> now ]

\* log_admin_action() keeping the old row of an UPDATE instead of a DELETE
log_admin_action_oldOnUpdate(uid, TG_OP, TG_TABLE_NAME, old, new) ==
  [ user_id |-> uid,
    action |-> TG_OP,
    table_name |-> TG_TABLE_NAME,
    record_id |-> CoalesceId(new, old),
    old_values |-> IF TG_OP = "UPDATE" THEN old ELSE NULL,
    new_values |-> IF TG_OP = "INSERT" \/ TG_OP = "UPDATE" THEN new ELSE NULL,
    created_at |-> now ]

\* AFTER INSERT OR UPDATE OR DELETE ... log_admin_action(): the row it inserts
log_admin_action(uid, TG_OP, TG_TABLE_NAME, old, new) ==
  [ user_id |-> uid,
    action |-> TG_OP,
    table_name |-> TG_TABLE_NAME,
    record_id |-> CoalesceId(new, old),
    old_values |-> IF TG_OP = "DELETE" THEN old ELSE NULL,
    new_values |-> IF TG_OP = "INSERT" \/ TG_OP = "UPDATE" THEN new ELSE NULL,
    created_at |-> now ]

\* ------------------------------------------- statements on admin_users
\* what a statement leaves behind: the error it raised, if any, and the tables
Result(err, u, g, a) ==
  [ error |-> err, admin_users |-> u, admin_user_permissions |-> g, audit_logs |-> a ]

Rejected == Result(TRUE, admin_users, admin_user_permissions, audit_logs)
NoRows == Result(FALSE, admin_users, admin_user_permissions, audit_logs)

Without(f, k) == [ x \in DOMAIN f \ {k} |-> f[x] ]

\* UsersConstraints() without the unique key on username
UsersConstraints_noUsernameKey(u) ==
  /\ \A i, j \in DOMAIN u : i # j => u[i].email # u[j].email
  /\ \A i \in DOMAIN u : u[i].role \in Roles

\* username text UNIQUE NOT NULL, email text UNIQUE, CHECK (role IN (...))
UsersConstraints(u) ==
  /\ \A i, j \in DOMAIN u : i # j => u[i].username # u[j].username
  /\ \A i, j \in DOMAIN u : i # j => u[i].email # u[j].email
  /\ \A i \in DOMAIN u : u[i].role \in Roles

\* ReferencesHold() without the key of audit_logs.user_id
ReferencesHold_noActorKey(u, g, s, a) ==
  /\ \A r \in g : r.granted_by = NoUser \/ r.granted_by \in DOMAIN u
  /\ \A k \in DOMAIN s : s[k].updated_by = NoUser \/ s[k].updated_by \in DOMAIN u

\* the foreign keys into admin_users that have no ON DELETE action
ReferencesHold(u, g, s, a) ==
  /\ \A r \in g : r.granted_by = NoUser \/ r.granted_by \in DOMAIN u
  /\ \A k \in DOMAIN s : s[k].updated_by = NoUser \/ s[k].updated_by \in DOMAIN u
  /\ \A i \in 1..Len(a) : a[i].user_id = NoUser \/ a[i].user_id \in DOMAIN u

\* Audited() with a trigger whose failure is swallowed: the rows commit unaudited
Audited_swallowed(uid, TG_OP, old, new, u, g, auditOk) ==
  LET a == Append(audit_logs, log_admin_action(uid, TG_OP, "admin_users", old, new))
  IN  IF UsersConstraints(u) /\ ReferencesHold(u, g, system_settings, a)
      THEN Result(FALSE, u, g, IF auditOk THEN a ELSE audit_logs)
      ELSE Rejected

\* Audited() keeping one audit row per record: the row written replaces the
\* earlier rows of the same record_id
Audited_latestOnly(uid, TG_OP, old, new, u, g, auditOk) ==
  LET row == log_admin_action(uid, TG_OP, "admin_users", old, new)
      a == Append(SelectSeq(audit_logs, LAMBDA x : x.record_id # row.record_id), row)
  IN  IF auditOk /\ UsersConstraints(u) /\ ReferencesHold(u, g, system_settings, a)
      THEN Result(FALSE, u, g, a)
      ELSE Rejected

\* a row statement on admin_users with its audit trigger: the statement and
\* the trigger's INSERT commit together, or the statement raises
Audited(uid, TG_OP, old, new, u, g, auditOk) ==
  LET a == Append(audit_logs, log_admin_action(uid, TG_OP, "admin_users", old, new))
  IN  IF auditOk /\ UsersConstraints(u) /\ ReferencesHold(u, g, system_settings, a)
      THEN Result(FALSE, u, g, a)
      ELSE Rejected

\* INSERT INTO admin_users (username, email, password_hash, role)
InsertUser(uid, vals, auditOk) ==
  LET new == [ id |-> nextId, username |-> vals.username, email |-> vals.email,
               password_hash |-> vals.password_hash, role |-> vals.role,
               is_active |-> TRUE, created_at |-> now, updated_at |-> now ]
  IN  IF ~ManageAllUsers(uid) THEN Rejected
      ELSE Audited(uid, "INSERT", NULL, new, (nextId :> new) @@ admin_users,
                   admin_user_permissions, auditOk)

\* UpdateUser() writing a whole row: a column the patch does not name takes
\* its default, which role has
UpdateUser_replacing(uid, id, patch, auditOk) ==
  IF ~ManageAllUsers(uid) \/ id \notin DOMAIN admin_users THEN NoRows
  ELSE LET old == admin_users[id]
           set == [ c \in DOMAIN old |->
                      IF c \in DOMAIN patch THEN patch[c]
                      ELSE IF c = "role" THEN "admin" ELSE old[c] ]
           new == update_updated_at_column(set)
       IN  Audited(uid, "UPDATE", old, new, [admin_users EXCEPT ![id] = new],
                   admin_user_permissions, auditOk)

\* UPDATE admin_users SET ... WHERE id = ...
UpdateUser(uid, id, patch, auditOk) ==
  IF ~ManageAllUsers(uid) \/ id \notin DOMAIN admin_users THEN NoRows
  ELSE LET old == admin_users[id]
           set == [ c \in DOMAIN old |-> IF c \in DOMAIN patch THEN patch[c] ELSE old[c] ]
           new == update_updated_at_column(set)
       IN  Audited(uid, "UPDATE", old, new, [admin_users EXCEPT ![id] = new],
                   admin_user_permissions, auditOk)

\* DeleteUser() that leaves the grants of the row behind
DeleteUser_noCascade(uid, id, auditOk) ==
  IF ~ManageAllUsers(uid) \/ id \notin DOMAIN admin_users THEN NoRows
  ELSE Audited(uid, "DELETE", admin_users[id], NULL, Without(admin_users, id),
               admin_user_permissions, auditOk)

\* DELETE FROM admin_users WHERE id = ...; grants of the row go by ON DELETE CASCADE
DeleteUser(uid, id, auditOk) ==
  IF ~ManageAllUsers(uid) \/ id \notin DOMAIN admin_users THEN NoRows
  ELSE Audited(uid, "DELETE", admin_users[id], NULL, Without(admin_users, id),
               { r \in admin_user_permissions : r.user_id # id }, auditOk)

\* --------------------------------- statements on admin_user_permissions
\* DELETE FROM admin_user_permissions WHERE user_id = ...
DeleteGrants(uid, user_id, ok) ==
  IF ~ok THEN Rejected
  ELSE IF ~ManageUserPermissions(uid) THEN NoRows
  ELSE Result(FALSE, admin_users,
              { r \in admin_user_permissions : r.user_id # user_id }, audit_logs)

\* INSERT INTO admin_user_permissions (user_id, permission_id) VALUES ...: one
\* statement for all the rows; granted_by is not supplied and stays NULL,
\* created_at takes its default
InsertGrants(uid, user_id, perms, ok) ==
  LET rows == { [ user_id |-> user_id, permission_id |-> p, granted_by |-> NoUser,
                  created_at |-> now ] : p \in perms }
  IN  IF \/ ~ok
         \/ ~ManageUserPermissions(uid)
         \/ user_id \notin DOMAIN admin_users                  \* REFERENCES admin_users(id)
         \/ ~(perms \subseteq PermissionIds)                   \* REFERENCES admin_permissions(id)
         \/ \E r \in admin_user_permissions :                  \* UNIQUE(user_id, permission_id)
               r.user_id = user_id /\ r.permission_id \in perms
      THEN Rejected
      ELSE Result(FALSE, admin_users, admin_user_permissions \cup rows, audit_logs)

\* ---------------------------------------- statements on system_settings
\* one row of an upsert ... ON CONFLICT (setting_key): the INSERT arm takes the
\* client's updated_at, the UPDATE arm runs update_updated_at_column()
UpsertRow(s, key, value) ==
  IF key \in DOMAIN s
  THEN [ s EXCEPT ![key] = update_updated_at_column([ @ EXCEPT !.setting_value = value ]) ]
  ELSE ( key :> [ setting_value |-> value, updated_by |-> NoUser,
                  created_at |-> now, updated_at |-> now ] ) @@ s

RECURSIVE UpsertRows(_, _, _)
UpsertRows(s, keys, values) ==
  IF keys = {} THEN s
  ELSE LET k == CHOOSE x \in keys : TRUE
       IN  UpsertRows(UpsertRow(s, k, values[k]), keys \ {k}, values)

\* UpsertSettings() as independent writes: the rows that do not fail are kept
UpsertSettings_perRow(uid, values, failing) ==
  IF ~ManageSystemSettings(uid) THEN [ error |-> TRUE, system_settings |-> system_settings ]
  ELSE [ error |-> failing \cap DOMAIN values # {},
         system_settings |-> UpsertRows(system_settings, DOMAIN values \ failing, values) ]

\* the upsert of a set of rows (values: setting_key -> setting_value) is one
\* statement: a row that fails (failing) fails all of them
UpsertSettings(uid, values, failing) ==
  IF ~ManageSystemSettings(uid) \/ failing \cap DOMAIN values # {}
  THEN [ error |-> TRUE, system_settings |-> system_settings ]
  ELSE [ error |-> FALSE, system_settings |-> UpsertRows(system_settings, DOMAIN values, values) ]

\* ----------------------------------------------------------------- reads
EmptyMap == [ k \in {} |-> 0 ]

SelectUsers(uid) ==
  IF ViewUsers(uid) \/ ManageAllUsers(uid)
  THEN { admin_users[i] : i \in DOMAIN admin_users } ELSE {}

SelectPermissions(uid) == IF ViewPermissions(uid) THEN admin_permissions ELSE {}

SelectUserPermissions(uid) ==
  IF ManageUserPermissions(uid) THEN admin_user_permissions ELSE {}

SelectSettings(uid) ==
  IF ManageSystemSettings(uid)
  THEN [ k \in DOMAIN system_settings |-> system_settings[k].setting_value ]
  ELSE EmptyMap

SelectAuditLogs(uid) == IF ViewAuditLogs(uid) THEN audit_logs ELSE << >>

\* -------------------------------------------------------------- handlers
Shown(op, uid, outcome) == [ op |-> op, uid |-> uid, outcome |-> outcome ]

Toast(error) == IF error THEN "Error" ELSE "Success"

Tick(changed) == now' = IF changed THEN now + 1 ELSE now

\* fetchUsers() as it feeds the user lists: the rows the caller may see
Fetched(uid, u) ==
  IF uid \in DOMAIN u /\ u[uid].is_active
  THEN { << i, u[i].is_active >> : i \in DOMAIN u } ELSE {}

\* a statement's result becomes the state; the handler then refetches on success
ApplyUsers(r, uid) ==
  /\ admin_users' = r.admin_users
  /\ admin_user_permissions' = r.admin_user_permissions
  /\ audit_logs' = r.audit_logs
  /\ nextId' = IF DOMAIN r.admin_users \subseteq DOMAIN admin_users THEN nextId ELSE nextId + 1
  /\ Tick(<< r.admin_users, r.admin_user_permissions >> # << admin_users, admin_user_permissions >>)
  /\ users' = IF r.error THEN users ELSE users \cup Fetched(uid, r.admin_users)
  /\ UNCHANGED << system_settings, settings, saving, viewer, permissions >>

\* `$2b$10$${formData.password}`
PasswordHash(password) == "$2b$10$" \o password

\* useEffect(() => { fetchUsers(); ... }, []) and the Refresh of a user list
fetchUsers(uid) ==
  /\ users' = users \cup { << r.id, r.is_active >> : r \in SelectUsers(uid) }
  /\ UNCHANGED << tables, now, nextId, settings, saving, last, viewer, permissions >>

\* updateData that carries a password_hash whatever the password field holds
updateData_alwaysHash(formData) ==
  [ username |-> formData.username, email |-> formData.email,
    role |-> formData.role, password_hash |-> PasswordHash(formData.password) ]

\* const updateData = { username, email, role };
\* if (formData.password) { updateData.password_hash = ... }
updateData(formData) ==
  [ username |-> formData.username, email |-> formData.email,
    role |-> formData.role ] @@
  ( IF formData.password # ""
    THEN [ password_hash |-> PasswordHash(formData.password) ]
    ELSE EmptyMap )

\* handleSubmit() whose validation does not look at the email
handleSubmit_noEmailTest(uid, editingUser, formData, auditOk) ==
  /\ editingUser = NoUser \/ \E p \in users : p[1] = editingUser
  /\ IF formData.username = ""
        \/ (editingUser = NoUser /\ formData.password = "")
     THEN /\ last' = Shown("handleSubmit", uid, "Error")
          /\ UNCHANGED << tables, now, nextId, users, settings, saving, viewer, permissions >>
     ELSE IF editingUser # NoUser
     THEN LET r == UpdateUser(uid, editingUser, updateData(formData), auditOk)
          IN  /\ ApplyUsers(r, uid)
              /\ last' = Shown("handleSubmit", uid, Toast(r.error))
     ELSE LET r == InsertUser(uid, [ username |-> formData.username,
                                     email |-> formData.email,
                                     password_hash |-> PasswordHash(formData.password),
                                     role |-> formData.role ], auditOk)
          IN  /\ nextId <= MaxUsers
              /\ ApplyUsers(r, uid)
              /\ last' = Shown("handleSubmit", uid, Toast(r.error))

\* handleSubmit: editingUser is NoUser for the create dialog
handleSubmit(uid, editingUser, formData, auditOk) ==
  /\ editingUser = NoUser \/ \E p \in users : p[1] = editingUser
  /\ IF formData.username = "" \/ formData.email = ""
        \/ (editingUser = NoUser /\ formData.password = "")
     THEN /\ last' = Shown("handleSubmit", uid, "Error")
          /\ UNCHANGED << tables, now, nextId, users, settings, saving, viewer, permissions >>
     ELSE IF editingUser # NoUser
     THEN LET r == UpdateUser(uid, editingUser, updateData(formData), auditOk)
          IN  /\ ApplyUsers(r, uid)
              /\ last' = Shown("handleSubmit", uid, Toast(r.error))
     ELSE LET r == InsertUser(uid, [ username |-> formData.username,
                                     email |-> formData.email,
                                     password_hash |-> PasswordHash(formData.password),
                                     role |-> formData.role ], auditOk)
          IN  /\ nextId <= MaxUsers
              /\ ApplyUsers(r, uid)
              /\ last' = Shown("handleSubmit", uid, Toast(r.error))

\* handleToggleStatus() that negates the flag the store holds
handleToggleStatus_storedFlag(uid, userId, currentStatus, auditOk) ==
  /\ << userId, currentStatus >> \in users
  /\ LET stored == IF userId \in DOMAIN admin_users
                   THEN admin_users[userId].is_active ELSE currentStatus
         r == UpdateUser(uid, userId, [ is_active |-> ~stored ], auditOk)
     IN  /\ ApplyUsers(r, uid)
         /\ last' = Shown("handleToggleStatus", uid, Toast(r.error))

\* handleToggleStatus(user.id, user.is_active) from a row of the user list
handleToggleStatus(uid, userId, currentStatus, auditOk) ==
  /\ << userId, currentStatus >> \in users
  /\ LET r == UpdateUser(uid, userId, [ is_active |-> ~currentStatus ], auditOk)
     IN  /\ ApplyUsers(r, uid)
         /\ last' = Shown("handleToggleStatus", uid, Toast(r.error))

\* handleDeleteUser(user.id), confirmed
handleDeleteUser(uid, userId, auditOk) ==
  /\ \E p \in users : p[1] = userId
  /\ LET r == DeleteUser(uid, userId, auditOk)
     IN  /\ ApplyUsers(r, uid)
         /\ last' = Shown("handleDeleteUser", uid, Toast(r.error))

\* the capabilities granted to identity u in grant table g
GrantsOf(g, u) == { r.permission_id : r \in { x \in g : x.user_id = u } }

\* saveUserPermissions up to its first await: the delete, whose error is not
\* read (deleteError); before is what the identity held when the call began
saveUserPermissions_delete(uid, selectedUser, selectedPermissions, ok) ==
  /\ saving = NULL
  /\ \E p \in users : p[1] = selectedUser
  /\ LET r == DeleteGrants(uid, selectedUser, ok)
     IN  /\ admin_user_permissions' = r.admin_user_permissions
         /\ Tick(r.admin_user_permissions # admin_user_permissions)
  /\ IF selectedPermissions = {}
     THEN /\ last' = Shown("saveUserPermissions", uid, "Success")
          /\ UNCHANGED saving
     ELSE /\ saving' = [ uid |-> uid, selectedUser |-> selectedUser,
                         selectedPermissions |-> selectedPermissions,
                         deleteError |-> DeleteGrants(uid, selectedUser, ok).error,
                         before |-> GrantsOf(admin_user_permissions, selectedUser) ]
          /\ last' = Shown("saveUserPermissions", uid, "pending")
  /\ UNCHANGED << admin_users, system_settings, audit_logs, nextId, users, settings, viewer, permissions >>

\* saveUserPermissions from the insert to its toast
saveUserPermissions_insert(ok) ==
  /\ saving # NULL
  /\ LET r == InsertGrants(saving.uid, saving.selectedUser, saving.selectedPermissions, ok)
     IN  /\ admin_user_permissions' = r.admin_user_permissions
         /\ Tick(r.admin_user_permissions # admin_user_permissions)
         /\ last' = Shown("saveUserPermissions", saving.uid, Toast(r.error))
  /\ saving' = NULL
  /\ UNCHANGED << admin_users, system_settings, audit_logs, nextId, users, settings, viewer, permissions >>

\* fetchSettings: the map of the rows the caller may see
fetchSettings(c, uid) ==
  /\ settings' = [ settings EXCEPT ![c] = SelectSettings(uid) ]
  /\ UNCHANGED << tables, now, nextId, users, saving, last, viewer, permissions >>

\* handleInputChange(key, value)
handleInputChange(c, key, value) ==
  /\ settings' = [ settings EXCEPT ![c] = ( key :> value ) @@ @ ]
  /\ UNCHANGED << tables, now, nextId, users, saving, last, viewer, permissions >>

\* updateSetting(key, value): rethrows the error of the upsert
updateSetting(c, uid, key, value, failing) ==
  /\ LET r == UpsertSettings(uid, ( key :> value ), failing)
     IN  /\ system_settings' = r.system_settings
         /\ Tick(~r.error)
         /\ settings' = IF r.error THEN settings
                        ELSE [ settings EXCEPT ![c] = ( key :> value ) @@ @ ]
         /\ last' = Shown("updateSetting", uid, Toast(r.error))
  /\ UNCHANGED << admin_users, admin_user_permissions, audit_logs, nextId, users, saving, viewer, permissions >>

\* handleSaveAll: one upsert of every entry of the in-memory map
handleSaveAll(c, uid, failing) ==
  /\ LET r == UpsertSettings(uid, settings[c], failing)
     IN  /\ system_settings' = r.system_settings
         /\ Tick(r.system_settings # system_settings)
         /\ last' = Shown("handleSaveAll", uid, Toast(r.error))
  /\ UNCHANGED << admin_users, admin_user_permissions, audit_logs, nextId, users,
                  settings, saving, viewer, permissions >>

\* ------------------------------------------------- the capability list
\* the place of a lower-case letter in the alphabet
CharRank(c) == CHOOSE i \in 1..26 : SubSeq("abcdefghijklmnopqrstuvwxyz", i, i) = c

\* a sorts before b, as ORDER BY ... ASC sorts the lower-case names of the seed
RECURSIVE TextLess(_, _)
TextLess(a, b) ==
  IF a = "" THEN b # ""
  ELSE IF b = "" THEN FALSE
  ELSE LET x == CharRank(SubSeq(a, 1, 1))
           y == CharRank(SubSeq(b, 1, 1))
       IN  x < y \/ (x = y /\ TextLess(SubSeq(a, 2, Len(a)), SubSeq(b, 2, Len(b))))

\* the rows of S in some order, each once
Orderings(S) ==
  { f \in [ 1..Cardinality(S) -> S ] : \A i, j \in 1..Cardinality(S) : i # j => f[i] # f[j] }

\* .order('module', { ascending: true }): rows of one module come in an order
\* the store does not promise
OrderedByModule(S) ==
  { f \in Orderings(S) : \A i, j \in 1..Cardinality(S) :
                             i < j => ~TextLess(f[j].module, f[i].module) }

\* fetchPermissions: setPermissions(data || [])
fetchPermissions(uid) ==
  /\ permissions' \in OrderedByModule(SelectPermissions(uid))
  /\ UNCHANGED << tables, now, nextId, users, settings, saving, last, viewer >>

\* permissions.reduce(...): the modules in the order they first appear, each
\* with its rows in list order
RECURSIVE Reduce(_, _)
Reduce(acc, p) ==
  IF p = << >> THEN acc
  ELSE LET perm == Head(p)
       IN  IF \E k \in 1..Len(acc) : acc[k].module = perm.module
           THEN LET k == CHOOSE n \in 1..Len(acc) : acc[n].module = perm.module
                IN  Reduce([ acc EXCEPT ![k].perms = Append(@, perm) ], Tail(p))
           ELSE Reduce(Append(acc, [ module |-> perm.module, perms |-> << perm >> ]), Tail(p))

groupedPermissions == Reduce(<< >>, permissions)

\* ----------------------------------------------------- the audit viewer
FetchLimit == 1000        \* .limit(1000)
NoDate == 0               \* a date filter that is undefined
NullText == "<NULL>"      \* a NULL text column, as no text in it

\* useState({ action: '', table: '', user: '', dateFrom: undefined, ... })
NoFilters ==
  [ action |-> "", table |-> "", user |-> "", dateFrom |-> NoDate, dateTo |-> NoDate,
    search |-> "" ]

UpperCase == "ABCDEFGHIJKLMNOPQRSTUVWXYZ"
LowerCase == "abcdefghijklmnopqrstuvwxyz"

\* String.prototype.toLowerCase()
LowerChar(c) ==
  IF \E i \in 1..Len(UpperCase) : SubSeq(UpperCase, i, i) = c
  THEN LET i == CHOOSE j \in 1..Len(UpperCase) : SubSeq(UpperCase, j, j) = c
       IN  SubSeq(LowerCase, i, i)
  ELSE c

RECURSIVE toLowerCase(_)
toLowerCase(s) ==
  IF s = "" THEN ""
  ELSE LowerChar(SubSeq(s, 1, 1)) \o toLowerCase(SubSeq(s, 2, Len(s)))

\* String.prototype.includes()
includes(s, t) ==
  \E i \in 0..(Len(s) - Len(t)) : SubSeq(s, i + 1, i + Len(t)) = t

\* .order('created_at', { ascending: false }): audit_logs holds its rows in
\* the order of their created_at, which the clock makes distinct
OrderDescending(a) == [ i \in 1..Len(a) |-> a[Len(a) + 1 - i] ]

\* .limit(n)
Limit(a, n) == IF Len(a) <= n THEN a ELSE SubSeq(a, 1, n)

\* select('*, admin_users (username)'): the row with the actor embedded, or
\* null where there is no actor row the caller may see
Embedded(uid, row) ==
  [ action |-> row.action, table_name |-> row.table_name, record_id |-> row.record_id,
    created_at |-> row.created_at, user_id |-> row.user_id,
    admin_users |-> IF row.user_id \in DOMAIN admin_users /\ ViewUsers(uid)
                    THEN [ username |-> admin_users[row.user_id].username ]
                    ELSE NULL ]

\* what the query of fetchAuditLogs returns to caller uid
SelectLatestAuditLogs(uid) ==
  LET a == Limit(OrderDescending(SelectAuditLogs(uid)), FetchLimit)
  IN  [ i \in 1..Len(a) |-> Embedded(uid, a[i]) ]

\* log.admin_users?.username.toLowerCase().includes(term): undefined, so
\* false, where there is no embedded actor
ActorIncludes(log, term) ==
  log.admin_users # NULL /\ includes(toLowerCase(log.admin_users.username), term)

\* the predicate of the search filter throws on a row it reaches the
\* record_id of, when that is null
SearchThrows(log, searchTerm) ==
  /\ ~includes(toLowerCase(log.action), searchTerm)
  /\ ~includes(toLowerCase(log.table_name), searchTerm)
  /\ log.record_id = NullText

SearchKeeps(log, searchTerm) ==
  \/ includes(toLowerCase(log.action), searchTerm)
  \/ includes(toLowerCase(log.table_name), searchTerm)
  \/ includes(toLowerCase(log.record_id), searchTerm)
  \/ ActorIncludes(log, searchTerm)

\* applyFilters(): the list it hands to setFilteredLogs, or the TypeError
applyFilters(l, f) ==
  LET byAction == IF f.action # ""
                  THEN SelectSeq(l, LAMBDA log : log.action = f.action) ELSE l
      byTable == IF f.table # ""
                 THEN SelectSeq(byAction, LAMBDA log : log.table_name = f.table)
                 ELSE byAction
      byUser == IF f.user # ""
                THEN SelectSeq(byTable, LAMBDA log : ActorIncludes(log, toLowerCase(f.user)))
                ELSE byTable
      byFrom == IF f.dateFrom # NoDate
                THEN SelectSeq(byUser, LAMBDA log : log.created_at >= f.dateFrom)
                ELSE byUser
      byTo == IF f.dateTo # NoDate
              THEN SelectSeq(byFrom, LAMBDA log : log.created_at <= f.dateTo)
              ELSE byFrom
      searchTerm == toLowerCase(f.search)
  IN  IF f.search = "" THEN [ threw |-> FALSE, filtered |-> byTo ]
      ELSE IF \E i \in 1..Len(byTo) : SearchThrows(byTo[i], searchTerm)
      THEN [ threw |-> TRUE, filtered |-> << >> ]
      ELSE [ threw |-> FALSE,
             filtered |-> SelectSeq(byTo, LAMBDA log : SearchKeeps(log, searchTerm)) ]

\* useEffect(() => { applyFilters(); }, [logs, filters]): an error thrown in
\* the effect takes the component down, and a new mount starts from NoFilters
Effect(uid, op, l, f) ==
  LET r == applyFilters(l, f)
  IN  /\ logs' = l
      /\ filters' = f
      /\ filteredLogs' = IF r.threw THEN filteredLogs ELSE r.filtered
      /\ last' = Shown(op, uid, IF r.threw THEN "TypeError" ELSE "Success")
      /\ UNCHANGED << tables, now, nextId, users, settings, saving, permissions >>

Mounted == last.op \in {"fetchAuditLogs", "setFilters", "clearFilters"}
             /\ last.outcome # "TypeError"

\* fetchAuditLogs, on mount and on Refresh, by the session of uid
fetchAuditLogs(uid) ==
  Effect(uid, "fetchAuditLogs", SelectLatestAuditLogs(uid),
         IF last.outcome = "TypeError" THEN NoFilters ELSE filters)

\* setFilters({ ...filters, [key]: value })
setFilters(key, value) ==
  /\ Mounted
  /\ Effect(last.uid, "setFilters", logs, [ filters EXCEPT ![key] = value ])

\* clearFilters
clearFilters ==
  /\ Mounted
  /\ Effect(last.uid, "clearFilters", logs, NoFilters)

\* ------------------------------------------------------- specifications
Init ==
  /\ admin_users = SeedUsers
  /\ admin_user_permissions = {}
  /\ system_settings = SeedSettings
  /\ audit_logs = << >>
  /\ now = 1
  /\ nextId = 4
  /\ users = { << i, SeedUsers[i].is_active >> : i \in DOMAIN SeedUsers }
  /\ settings = [ c \in Clients |->
                    [ k \in DOMAIN SeedSettings |-> SeedSettings[k].setting_value ] ]
  /\ saving = NULL
  /\ last = Shown("mount", NoUser, "Success")
  /\ logs = << >>
  /\ filters = NoFilters
  /\ filteredLogs = << >>
  /\ permissions = << >>

FormData ==
  [ username : UsernameInputs, email : EmailInputs,
    password : PasswordInputs, role : RoleInputs ]

\* the identity handlers and their audit trail
Next ==
  \/ \E uid \in Uids : now < MaxTime /\ fetchUsers(uid)
  \/ \E uid \in Uids, editingUser \in Uids, formData \in FormData, auditOk \in BOOLEAN :
        now < MaxTime /\ handleSubmit(uid, editingUser, formData, auditOk)
  \/ \E uid \in Uids, userId \in UserIds, currentStatus \in BOOLEAN, auditOk \in BOOLEAN :
        now < MaxTime /\ handleToggleStatus(uid, userId, currentStatus, auditOk)
  \/ \E uid \in Uids, userId \in UserIds, auditOk \in BOOLEAN :
        now < MaxTime /\ handleDeleteUser(uid, userId, auditOk)

Spec == Init /\ [][Next]_vars

\* the identity form with the activation toggle: identities are created,
\* edited, deactivated and reactivated, none is deleted
SubmitNext ==
  \/ \E uid \in Uids : now < MaxTime /\ fetchUsers(uid)
  \/ \E uid \in Uids, editingUser \in Uids, formData \in FormData, auditOk \in BOOLEAN :
        now < MaxTime /\ handleSubmit(uid, editingUser, formData, auditOk)
  \/ \E uid \in Uids, userId \in UserIds, currentStatus \in BOOLEAN, auditOk \in BOOLEAN :
        now < MaxTime /\ handleToggleStatus(uid, userId, currentStatus, auditOk)

SubmitSpec == Init /\ [][SubmitNext]_vars

\* the identity alice is created, her permission set replaced, and she is deleted
AliceForm ==
  [ username |-> "alice", email |-> "alice@panchayath.in", password |-> "pw", role |-> "admin" ]

GrantActors == {1, 3}      \* superadmin and localadmin
SelectedInputs == SUBSET {1, 2}   \* the checkboxes ticked in the permission dialog

GrantNext ==
  \/ \E uid \in GrantActors : now < MaxGrantTime /\ fetchUsers(uid)
  \/ \E uid \in GrantActors, auditOk \in BOOLEAN :
        now < MaxGrantTime /\ handleSubmit(uid, NoUser, AliceForm, auditOk)
  \/ \E uid \in GrantActors, userId \in UserIds, auditOk \in BOOLEAN :
        now < MaxGrantTime /\ handleDeleteUser(uid, userId, auditOk)
  \/ \E uid \in GrantActors, selectedUser \in UserIds,
        selectedPermissions \in SelectedInputs, ok \in BOOLEAN :
        now < MaxGrantTime
        /\ saveUserPermissions_delete(uid, selectedUser, selectedPermissions, ok)
  \/ \E ok \in BOOLEAN : now < MaxGrantTime /\ saveUserPermissions_insert(ok)

GrantSpec == Init /\ [][GrantNext]_vars

\* the settings views of two clients, while identities go inactive and back
SettingsActors == 1..3     \* the three seeded identities
Failing == { {} } \cup { {k} : k \in SettingKeys }

SettingsNext ==
  \/ \E c \in Clients, uid \in SettingsActors :
        now < MaxSettingsTime /\ fetchSettings(c, uid)
  \/ \E c \in Clients, key \in SettingKeys, value \in SettingValues :
        now < MaxSettingsTime /\ handleInputChange(c, key, value)
  \/ \E c \in Clients, uid \in SettingsActors, key \in SettingKeys,
        value \in SettingValues, failing \in Failing :
        now < MaxSettingsTime /\ updateSetting(c, uid, key, value, failing)
  \/ \E c \in Clients, uid \in SettingsActors, failing \in Failing :
        now < MaxSettingsTime /\ handleSaveAll(c, uid, failing)
  \/ \E userId \in UserIds, currentStatus \in BOOLEAN :
        now < MaxSettingsTime /\ handleToggleStatus(1, userId, currentStatus, TRUE)

SettingsSpec == Init /\ [][SettingsNext]_vars

\* two administrators, each with a settings view: A is superadmin and edits
\* maintenance_mode only, B is admin1 and edits custom_settings only
SessionOf == ( "A" :> 1 ) @@ ( "B" :> 2 )
EditedBy == ( "A" :> {"maintenance_mode"} ) @@ ( "B" :> {"custom_settings"} )

TwoAdminsNext ==
  \/ \E c \in Clients : now < MaxSettingsTime /\ fetchSettings(c, SessionOf[c])
  \/ \E c \in Clients, key \in SettingKeys, value \in SettingValues :
        now < MaxSettingsTime /\ key \in EditedBy[c] /\ handleInputChange(c, key, value)
  \/ \E c \in Clients, failing \in Failing :
        now < MaxSettingsTime /\ handleSaveAll(c, SessionOf[c], failing)

TwoAdminsSpec == Init /\ [][TwoAdminsNext]_vars

\* the capability list of any caller, while identities are turned off and on
\* or deleted
PermissionsNext ==
  \/ \E uid \in Uids : now < MaxTime /\ fetchPermissions(uid)
  \/ \E uid \in Uids : now < MaxTime /\ fetchUsers(uid)
  \/ \E uid \in Uids, userId \in UserIds, currentStatus \in BOOLEAN, auditOk \in BOOLEAN :
        now < MaxTime /\ handleToggleStatus(uid, userId, currentStatus, auditOk)
  \/ \E uid \in Uids, userId \in UserIds, auditOk \in BOOLEAN :
        now < MaxTime /\ handleDeleteUser(uid, userId, auditOk)

PermissionsSpec == Init /\ [][PermissionsNext]_vars

\* the audit viewer over a store that already holds a history of audit rows
\* of admin_users (by superadmin), of panchayaths (no actor: auth.uid() was
\* NULL) and of agents written without a record_id (the column is nullable)
RowKinds == {"user", "system", "bare"}

HistoryRow(kind, t) ==
  CASE kind = "user" ->
         [ user_id |-> 1, action |-> "UPDATE", table_name |-> "admin_users",
           record_id |-> "2", old_values |-> NULL,
           new_values |-> [ SeedUsers[2] EXCEPT !.updated_at = t ], created_at |-> t ]
    [] kind = "system" ->
         [ user_id |-> NoUser, action |-> "INSERT", table_name |-> "panchayaths",
           record_id |-> "7", old_values |-> NULL, new_values |-> [ id |-> 7 ],
           created_at |-> t ]
    [] kind = "bare" ->
         [ user_id |-> 2, action |-> "DELETE", table_name |-> "agents",
           record_id |-> NullText, old_values |-> NULL, new_values |-> NULL,
           created_at |-> t ]

History(kinds) == [ i \in 1..Len(kinds) |-> HistoryRow(kinds[i], i) ]

ShortHistories ==
  { History(kinds) : kinds \in UNION { [ 1..n -> RowKinds ] : n \in 0..MaxHistory } }

\* histories around the fetch limit
LongHistories ==
  { History([ i \in 1..n |-> "user" ]) : n \in { FetchLimit - 1, FetchLimit, FetchLimit + 1 } }

InitOver(histories) ==
  /\ admin_users = SeedUsers
  /\ admin_user_permissions = {}
  /\ system_settings = SeedSettings
  /\ audit_logs \in histories
  /\ now = Len(audit_logs) + 1
  /\ nextId = 4
  /\ users = { << i, SeedUsers[i].is_active >> : i \in DOMAIN SeedUsers }
  /\ settings = [ c \in Clients |->
                    [ k \in DOMAIN SeedSettings |-> SeedSettings[k].setting_value ] ]
  /\ saving = NULL
  /\ last = Shown("mount", NoUser, "Success")
  /\ logs = << >>
  /\ filters = NoFilters
  /\ filteredLogs = << >>
  /\ permissions = << >>

Viewers == {NoUser, 1, 3}

FilterInputs ==
  { << "action", v >> : v \in {"", "UPDATE"} } \cup
  { << "table", v >> : v \in {"", "agents"} } \cup
  { << "user", v >> : v \in {"", "ADMIN"} } \cup
  { << "dateFrom", v >> : v \in {NoDate, 2} } \cup
  { << "dateTo", v >> : v \in {NoDate, 1} } \cup
  { << "search", v >> : v \in {"", "Up", "7", "super"} }

AuditInit == InitOver(ShortHistories)

AuditNext ==
  \/ \E uid \in Viewers : fetchAuditLogs(uid)
  \/ \E kv \in FilterInputs : setFilters(kv[1], kv[2])
  \/ clearFilters

AuditSpec == AuditInit /\ [][AuditNext]_vars

\* the date range of the viewer over histories short of, at and past the limit
DateInputs == (0..MaxHistory) \cup { FetchLimit, FetchLimit + 1 }

AuditRangeInit ==
  InitOver({ History([ i \in 1..n |-> "user" ]) : n \in 0..MaxHistory } \cup LongHistories)

AuditRangeNext ==
  \/ \E uid \in Viewers : fetchAuditLogs(uid)
  \/ \E key \in {"dateFrom", "dateTo"}, value \in DateInputs : setFilters(key, value)
  \/ clearFilters

AuditRangeSpec == AuditRangeInit /\ [][AuditRangeNext]_vars

\* ------------------------------------------------- the audit recorder
\* ids whose admin_users row is inserted, rewritten or deleted by the step
Inserted == DOMAIN admin_users' \ DOMAIN admin_users
Deleted == DOMAIN admin_users \ DOMAIN admin_users'
Updated == { i \in DOMAIN admin_users \cap DOMAIN admin_users' : admin_users'[i] # admin_users[i] }

\* the audit rows the step appended
Appended == SubSeq(audit_logs', Len(audit_logs) + 1, Len(audit_logs'))
KeepsAudit ==
  /\ Len(audit_logs') >= Len(audit_logs)
  /\ SubSeq(audit_logs', 1, Len(audit_logs)) = audit_logs

\* C1: audit records and committed row mutations of admin_users correspond one
\* to one: a step appends exactly one audit record per row it inserts, rewrites
\* or deletes, naming that row, and appends none when it commits no mutation
\* (the statement failed, or the trigger's INSERT failed and took it down).
C1_AuditOneToOne ==
  [][ /\ KeepsAudit
      /\ Len(Appended) = Cardinality(Inserted \cup Updated \cup Deleted)
      /\ \A i \in Inserted \cup Updated \cup Deleted :
            \E n \in 1..Len(Appended) :
               Appended[n].record_id = ToString(i) /\ Appended[n].table_name = "admin_users"
    ]_vars

\* a permitted mutation was taken down by its audit write, after one that committed
C1_Witness ==
  /\ last.op = "handleToggleStatus" /\ last.outcome = "Error"
  /\ Len(audit_logs) = 1

\* C2: a successful insert adds exactly one audit record, in the same step:
\* INSERT, the new row's id, no before snapshot, after = the persisted row.
C2_CreateAudited ==
  [][ \A i \in Inserted :
        /\ Len(Appended) = 1
        /\ Appended[1].action = "INSERT"
        /\ Appended[1].record_id = ToString(i)
        /\ Appended[1].old_values = NULL
        /\ Appended[1].new_values = admin_users'[i]
    ]_vars

C2_Witness ==
  /\ 4 \in DOMAIN admin_users
  /\ \E n \in 1..Len(audit_logs) :
        audit_logs[n].action = "INSERT" /\ audit_logs[n].new_values = admin_users[4]

\* C3 (as claimed): the audit record of an update carries both snapshots, the
\* row just before the update and the row just after it.
C3_UpdateBothSnapshots ==
  [][ \A i \in Updated :
        /\ Len(Appended) = 1
        /\ Appended[1].action = "UPDATE"
        /\ Appended[1].old_values = admin_users[i]
        /\ Appended[1].new_values = admin_users'[i]
    ]_vars

\* C4: the audit record of a delete carries the row as it was immediately
\* before the deletion as its before snapshot, and no after snapshot.
C4_DeleteAudited ==
  [][ \A i \in Deleted :
        /\ Len(Appended) = 1
        /\ Appended[1].action = "DELETE"
        /\ Appended[1].record_id = ToString(i)
        /\ Appended[1].old_values = admin_users[i]
        /\ Appended[1].new_values = NULL
    ]_vars

C4_Witness ==
  /\ 2 \notin DOMAIN admin_users
  /\ \E n \in 1..Len(audit_logs) :
        /\ audit_logs[n].action = "DELETE" /\ audit_logs[n].record_id = "2"
        /\ audit_logs[n].old_values # NULL /\ audit_logs[n].old_values.username = "admin1"

\* ------------------------------------------------ the permission registry
\* C5 (as claimed): a permission-set replace is observably atomic: the state
\* left by its first store call, which a concurrent reader or a crash before
\* the second call observes, shows the identity's full old grant set or the
\* full new one.
C5_ReplaceAtomic ==
  [][ (saving = NULL /\ saving' # NULL) =>
        GrantsOf(admin_user_permissions', saving'.selectedUser) \in
          { GrantsOf(admin_user_permissions, saving'.selectedUser),
            saving'.selectedPermissions }
    ]_vars

\* ------------------------------------------------------ the settings store
\* C6: a batch save is all-or-nothing: a handleSaveAll step that reports an
\* error leaves system_settings as it was, and one that reports success has
\* written every entry of the saving client's map; no step writes a part.
C6_SaveAllAtomic ==
  [][ last'.op = "handleSaveAll" =>
        \A c \in Clients, failing \in Failing :
          handleSaveAll(c, last'.uid, failing) =>
            IF last'.outcome = "Error"
            THEN system_settings' = system_settings
            ELSE \A k \in DOMAIN settings[c] :
                   /\ k \in DOMAIN system_settings'
                   /\ system_settings'[k].setting_value = settings[c][k]
    ]_vars

\* a batch of two entries was refused for one failing entry, by a permitted caller
C6_Witness ==
  /\ last.op = "handleSaveAll" /\ last.outcome = "Error"
  /\ ActiveAdmin(last.uid)
  /\ \A c \in Clients : settings[c] = ( "maintenance_mode" :> 1 ) @@ ( "custom_settings" :> 1 )
  /\ "custom_settings" \notin DOMAIN system_settings
  /\ system_settings["maintenance_mode"].setting_value = 0

\* ------------------------------------------------- the policy evaluator
UserValues ==
  [ username : {"alice"}, email : {"alice@panchayath.in"},
    password_hash : {PasswordHash("pw")}, role : Roles ]

UserPatches ==
  { [ is_active |-> b ] : b \in BOOLEAN } \cup
  { [ username |-> "alice", email |-> "alice@panchayath.in", role |-> r ] : r \in Roles }

SettingsMaps ==
  { ( k :> v ) : k \in SettingKeys, v \in SettingValues } \cup
  { ( "maintenance_mode" :> v ) @@ ( "custom_settings" :> w ) :
      v \in SettingValues, w \in SettingValues }

\* the statement left the identities and the grants as they were
LeavesUsers(r) ==
  /\ r.admin_users = admin_users
  /\ r.admin_user_permissions = admin_user_permissions
  /\ r.audit_logs = audit_logs

\* every statement on identities and grants, run as uid, changes nothing
UsersAndGrantsClosedTo(uid) ==
  /\ \A vals \in UserValues : LeavesUsers(InsertUser(uid, vals, TRUE))
  /\ \A id \in UserIds, patch \in UserPatches : LeavesUsers(UpdateUser(uid, id, patch, TRUE))
  /\ \A id \in UserIds : LeavesUsers(DeleteUser(uid, id, TRUE))
  /\ \A id \in UserIds : LeavesUsers(DeleteGrants(uid, id, TRUE))
  /\ \A id \in UserIds, perms \in SUBSET PermissionIds :
        perms # {} => LeavesUsers(InsertGrants(uid, id, perms, TRUE))

\* C7: an acting identity that is missing, unauthenticated or inactive is
\* denied every read and every mutation, whatever its role: each read returns
\* nothing and each statement on identities, grants and settings leaves every
\* table as it was (capabilities and audit records have no client mutation).
C7_InactiveDenied ==
  \A uid \in Uids :
    ~(uid \in DOMAIN admin_users /\ admin_users[uid].is_active) =>
      /\ SelectUsers(uid) = {}
      /\ SelectPermissions(uid) = {}
      /\ SelectUserPermissions(uid) = {}
      /\ SelectSettings(uid) = EmptyMap
      /\ SelectAuditLogs(uid) = << >>
      /\ UsersAndGrantsClosedTo(uid)
      /\ \A values \in SettingsMaps :
            LET r == UpsertSettings(uid, values, {})
            IN  r.error /\ r.system_settings = system_settings

\* a deactivated super_admin tried a delete an active super_admin may perform
C7_Witness ==
  /\ last.op = "handleDeleteUser"
  /\ last.uid \in DOMAIN admin_users
  /\ admin_users[last.uid].role = "super_admin"
  /\ ~admin_users[last.uid].is_active
  /\ Len(audit_logs) = 1

C9_SettingsAnyActiveRole ==
  \A uid \in Uids, key \in SettingKeys, value \in SettingValues :
    LET r == UpsertSettings(uid, ( key :> value ), {})
    IN  IF uid \in DOMAIN admin_users /\ admin_users[uid].is_active
        THEN /\ ~r.error
             /\ key \in DOMAIN r.system_settings
             /\ r.system_settings[key].setting_value = value
        ELSE r.error /\ r.system_settings = system_settings

\* a local_admin created a setting while the admin was inactive
C9_Witness ==
  /\ last.op = "updateSetting" /\ last.outcome = "Success"
  /\ admin_users[last.uid].role = "local_admin"
  /\ "custom_settings" \in DOMAIN system_settings
  /\ ~admin_users[2].is_active

\* ------------------------------------------------- the scenario of alice
\* identity id is alice, an admin holding a capability
AliceGranted(id) ==
  /\ id \in DOMAIN admin_users
  /\ admin_users[id].username = "alice" /\ admin_users[id].role = "admin"
  /\ GrantsOf(admin_user_permissions, id) # {}

\* C10 (as claimed): once alice, an admin, is created and granted a capability,
\* her deletion by a local_admin is refused with an error and changes nothing,
\* and her deletion by an active super_admin succeeds: her row and all her
\* grants go, with exactly one DELETE audit record, for her row.
C10_AliceDeletion ==
  [][ \A uid \in GrantActors, id \in UserIds :
        ( /\ AliceGranted(id)
          /\ uid \in DOMAIN admin_users /\ admin_users[uid].is_active
          /\ handleDeleteUser(uid, id, TRUE) ) =>
          IF admin_users[uid].role = "local_admin"
          THEN /\ last'.outcome = "Error"
               /\ UNCHANGED tables
          ELSE /\ last'.outcome = "Success"
               /\ id \notin DOMAIN admin_users'
               /\ GrantsOf(admin_user_permissions', id) = {}
               /\ Len(Appended) = 1
               /\ Appended[1].action = "DELETE"
               /\ Appended[1].table_name = "admin_users"
               /\ Appended[1].record_id = ToString(id)
    ]_vars

\* ------------------------------------------------------- grants, again
\* the grant rows of the pair (identity u, capability p) in grant table g
GrantRows(g, u, p) == { r \in g : r.user_id = u /\ r.permission_id = p }

\* C11 (as claimed): granting a capability to an identity that already holds
\* it is a no-op and not an error: the grant statement of an active super_admin
\* reports success, leaves exactly one grant for each pair it names and
\* appends no audit record.
C11_GrantIdempotent ==
  [][ ( /\ saving # NULL
        /\ SuperAdmin(saving.uid)
        /\ \E p \in saving.selectedPermissions :
              p \in GrantsOf(admin_user_permissions, saving.selectedUser)
        /\ saveUserPermissions_insert(TRUE) ) =>
        /\ last'.outcome = "Success"
        /\ \A p \in saving.selectedPermissions :
              Cardinality(GrantRows(admin_user_permissions', saving.selectedUser, p)) = 1
        /\ audit_logs' = audit_logs
    ]_vars

\* ------------------------------------------------- the audit log, again
\* C12: the audit log is append-only: every step keeps every audit record
\* written so far, at its place and with all its fields, and at most appends.
C12_AuditAppendOnly == [][KeepsAudit]_vars

\* a record was rewritten and then deleted: two audit rows name it
C12_Witness ==
  /\ Len(audit_logs) = 2
  /\ audit_logs[1].record_id = audit_logs[2].record_id
  /\ audit_logs[1].action = "UPDATE" /\ audit_logs[2].action = "DELETE"

\* ------------------------------------------------- the audit viewer's list
\* the stored columns of a row, of the table or of the viewer's list
Stored(r) ==
  [ user_id |-> r.user_id, action |-> r.action, table_name |-> r.table_name,
    record_id |-> r.record_id, created_at |-> r.created_at ]

\* the stored audit rows created within [from, to], newest first
StoredWithin(from, to) ==
  LET within == SelectSeq(audit_logs, LAMBDA r : from <= r.created_at /\ r.created_at <= to)
  IN  [ i \in 1..Len(within) |-> Stored(within[Len(within) + 1 - i]) ]

\* C13 (as claimed): with dateFrom and dateTo set and every other filter
\* empty, the list shown to an active identity is exactly the stored audit
\* records created within [dateFrom, dateTo], newest first, however many
\* records are stored.
C13_DateRangeExact ==
  ( /\ Mounted
    /\ ActiveAdmin(last.uid)
    /\ filters.dateFrom # NoDate /\ filters.dateTo # NoDate
    /\ filters.action = "" /\ filters.table = "" /\ filters.user = "" /\ filters.search = "" )
  => [ i \in 1..Len(filteredLogs) |-> Stored(filteredLogs[i]) ]
       = StoredWithin(filters.dateFrom, filters.dateTo)

\* text contains term, compared without case; a missing text contains nothing
ContainsText(text, term) ==
  text # NullText /\ includes(toLowerCase(text), toLowerCase(term))

ActorHandle(log) ==
  IF log.admin_users = NULL THEN NullText ELSE log.admin_users.username

ViolatedConstraint(u) ==
  IF \E i, j \in DOMAIN u : i # j /\ u[i].username = u[j].username
  THEN "admin_users_username_key"
  ELSE IF \E i \in DOMAIN u : u[i].role \notin Roles
  THEN "admin_users_role_check"
  ELSE "none"

\* the row an INSERT of vals would add to the identities
WithRow(vals) ==
  ( nextId :> [ id |-> nextId, username |-> vals.username, email |-> vals.email,
                password_hash |-> vals.password_hash, role |-> vals.role,
                is_active |-> TRUE, created_at |-> now, updated_at |-> now ] ) @@ admin_users

Handles == { admin_users[i].username : i \in DOMAIN admin_users }

\* C15: no two identities ever share a handle and every role is one of the
\* three; an insert or update by a super_admin that would take a handle in use
\* breaks the unique key, one with a role outside the three breaks the role
\* check, and both are refused leaving identities and audit log unchanged; the
\* form of handleSubmit then reports the error (a submit that reports success
\* or changes identities or audit log is no submit of a handle in use).
C15_HandleUniqueRoleValid ==
  /\ [] ( /\ ViolatedConstraint(admin_users) = "none"
          /\ \A uid \in { i \in Uids : SuperAdmin(i) }, name \in Handles \cup {"bob"},
                role \in Roles \cup {"root"} :
                (name \in Handles \/ role \notin Roles) =>
                  /\ LET vals == [ username |-> name, email |-> "bob@panchayath.in",
                                   password_hash |-> PasswordHash("pw"), role |-> role ]
                         r == InsertUser(uid, vals, TRUE)
                     IN  /\ r.error /\ LeavesUsers(r)
                         /\ ViolatedConstraint(WithRow(vals)) =
                              IF name \in Handles THEN "admin_users_username_key"
                              ELSE "admin_users_role_check"
                  /\ \A id \in DOMAIN admin_users :
                       (admin_users[id].username # name \/ role \notin Roles) =>
                         LET r == UpdateUser(uid, id, [ username |-> name, role |-> role ], TRUE)
                         IN  r.error /\ LeavesUsers(r) )
  /\ [][ ( /\ last'.op = "handleSubmit" /\ SuperAdmin(last'.uid)
             /\ ~(last'.outcome = "Error" /\ UNCHANGED << admin_users, audit_logs >>) ) =>
           \A formData \in { f \in FormData : f.username \in Handles },
              editingUser \in DOMAIN admin_users \cup {NoUser} :
             (\E i \in DOMAIN admin_users \ {editingUser} :
                 admin_users[i].username = formData.username)
             => ~handleSubmit(last'.uid, editingUser, formData, TRUE)
       ]_vars

\* an identity took the handle alice, and a super_admin's next submit was refused
C15_Witness ==
  /\ last.op = "handleSubmit" /\ last.outcome = "Error" /\ SuperAdmin(last.uid)
  /\ \E i \in DOMAIN admin_users : admin_users[i].username = "alice"
  /\ Len(audit_logs) = 1

\* ------------------------------------------------------- credentials
\* C16 (as claimed): the password typed into the form is never stored or sent
\* to the store as plaintext: after a handleSubmit with a password, neither
\* the password_hash of the row it wrote nor any audit snapshot it produced
\* contains that password.
C16_NoPlaintextPassword ==
  [][ last'.op = "handleSubmit" =>
        \A editingUser \in Uids, formData \in FormData, auditOk \in BOOLEAN :
          ( /\ formData.password # ""
            /\ handleSubmit(last'.uid, editingUser, formData, auditOk) ) =>
            /\ \A i \in Inserted \cup Updated :
                  ~includes(admin_users'[i].password_hash, formData.password)
            /\ \A n \in 1..Len(Appended) :
                  Appended[n].new_values # NULL =>
                    ~includes(Appended[n].new_values.password_hash, formData.password)
    ]_vars

\* -------------------------------------------------- settings, again
\* C17 (as claimed): updateSetting is an upsert: a call that succeeds leaves
\* one setting with the key, holding the value; where the key existed, its
\* updated_by is the acting identity and its updated_at the time of the call.
C17_UpsertSetsEditor ==
  [][ last'.op = "updateSetting" =>
        \A c \in Clients, key \in SettingKeys, value \in SettingValues :
          ( /\ updateSetting(c, last'.uid, key, value, {})
            /\ last'.outcome = "Success" ) =>
            /\ key \in DOMAIN system_settings'
            /\ system_settings'[key].setting_value = value
            /\ key \in DOMAIN system_settings =>
                 /\ system_settings'[key].updated_by = last'.uid
                 /\ system_settings'[key].updated_at = now
    ]_vars

\* ------------------------------------------------- grants and their ends
\* C18: in every reachable state a pair (identity, capability) has at most one
\* grant and every grant names an identity and a capability that exist; the
\* step that deletes an identity removes all of its grants.  (No statement of
\* the application deletes a capability.)
C18_GrantsUniqueAndAnchored ==
  /\ [] ( \A r \in admin_user_permissions :
            /\ r.user_id \in DOMAIN admin_users
            /\ r.permission_id \in PermissionIds
            /\ Cardinality(GrantRows(admin_user_permissions, r.user_id, r.permission_id)) = 1 )
  /\ [][ \A i \in Deleted : GrantsOf(admin_user_permissions', i) = {} ]_vars

\* admin1 was granted a capability and then deleted: the grant went with the row
C18_Witness ==
  /\ 2 \notin DOMAIN admin_users
  /\ Len(audit_logs) = 1 /\ audit_logs[1].action = "DELETE"
  /\ now = 3
  /\ admin_user_permissions = {}

\* ------------------------------------------------- activation
\* the columns of an identity that activation must not touch
Identity(row) ==
  [ id |-> row.id, username |-> row.username, email |-> row.email,
    password_hash |-> row.password_hash, role |-> row.role, created_at |-> row.created_at ]

\* C19: handleToggleStatus changes only the active flag and the update
\* timestamp of the identity it names: no row is added or deleted, every other
\* row and the identity's handle, email, role and credential hash stay as they
\* were, and so do all grants, all settings and all audit records written before.
C19_ToggleFrame ==
  [][ last'.op = "handleToggleStatus" =>
        \A userId \in UserIds, currentStatus \in BOOLEAN, auditOk \in BOOLEAN :
          handleToggleStatus(last'.uid, userId, currentStatus, auditOk) =>
            /\ DOMAIN admin_users' = DOMAIN admin_users
            /\ \A i \in DOMAIN admin_users :
                  IF i = userId
                  THEN Identity(admin_users'[i]) = Identity(admin_users[i])
                  ELSE admin_users'[i] = admin_users[i]
            /\ admin_user_permissions' = admin_user_permissions
            /\ system_settings' = system_settings
            /\ KeepsAudit
    ]_vars

\* admin1 was deactivated and is still admin1, an admin
C19_Witness ==
  /\ last.op = "handleToggleStatus" /\ last.outcome = "Success"
  /\ 2 \in DOMAIN admin_users /\ ~admin_users[2].is_active
  /\ admin_users[2].updated_at > 0
  /\ Identity(admin_users[2]) = Identity(SeedUsers[2])

\* ------------------------------------------- audit of grants and settings
\* C20 (as claimed): every committed change of the grants by a permission save
\* and every committed setting upsert appends, in the same step, an audit
\* record of the table it changed.
C20_GrantsAndSettingsAudited ==
  [][ /\ ( last'.op = "saveUserPermissions"
           /\ admin_user_permissions' # admin_user_permissions ) =>
           \E n \in 1..Len(Appended) : Appended[n].table_name = "admin_user_permissions"
      /\ ( last'.op \in {"updateSetting", "handleSaveAll"}
           /\ system_settings' # system_settings ) =>
           \E n \in 1..Len(Appended) : Appended[n].table_name = "system_settings"
    ]_vars

\* ------------------------------------------------- who granted
\* C21 (as claimed): every grant written by a permission save records the
\* identity that authorized it: granted_by of each row the insert adds is the
\* identity running saveUserPermissions.
C21_GrantedByActor ==
  [][ last'.op = "saveUserPermissions" =>
        \A r \in admin_user_permissions' \ admin_user_permissions :
           r.granted_by = last'.uid
    ]_vars

\* ------------------------------------------------- the capability list
\* C22 (as claimed): a fetched capability list shows every stored (module,
\* action) pair exactly once, grouped by module, modules ascending and, within
\* a module, actions ascending.
C22_ListGroupedAndOrdered ==
  permissions # << >> =>
    LET g == groupedPermissions
    IN  /\ \A perm \in admin_permissions :
              Cardinality({ << k, n >> \in (1..Len(g)) \X (1..Cardinality(admin_permissions)) :
                              n <= Len(g[k].perms) /\ g[k].perms[n] = perm }) = 1
        /\ \A k \in 1..Len(g) : \A n \in 1..Len(g[k].perms) : g[k].perms[n].module = g[k].module
        /\ \A k, l \in 1..Len(g) : k < l => TextLess(g[k].module, g[l].module)
        /\ \A k \in 1..Len(g) : \A n, m \in 1..Len(g[k].perms) :
              n < m => TextLess(g[k].perms[n].action, g[k].perms[m].action)

\* ------------------------------------------------- the identity form
\* what handleSubmit refuses: no handle, no email, or no password on a create
InvalidInput(editingUser, formData) ==
  \/ formData.username = ""
  \/ formData.email = ""
  \/ (editingUser = NoUser /\ formData.password = "")

\* the dialogs and forms that make an invalid submission
InvalidForms == { p \in Uids \X FormData : InvalidInput(p[1], p[2]) }

\* C23: a submission with invalid input is rejected before any write: the
\* handleSubmit step reports the error and leaves every table, the audit log
\* among them, as it was (a submit that does otherwise is no submit of invalid
\* input).
C23_InvalidInputRejected ==
  [][ ( /\ last'.op = "handleSubmit"
        /\ ~(last'.outcome = "Error" /\ UNCHANGED << tables, nextId >>) ) =>
        \A auditOk \in BOOLEAN :
          ~\E p \in InvalidForms : handleSubmit(last'.uid, p[1], p[2], auditOk)
    ]_vars

\* a super_admin's submission was refused with the store still as seeded
C23_Witness ==
  /\ last.op = "handleSubmit" /\ last.outcome = "Error" /\ SuperAdmin(last.uid)
  /\ admin_users = SeedUsers /\ audit_logs = << >>

\* ------------------------------------------------- two settings views
\* C24 (as claimed): a settings view is no separate authority: when a client
\* saves, the value its map holds for a key it did not edit is the value the
\* store holds for that key now (the view was reloaded after every successful
\* save of anyone).
C24_ViewNeverStale ==
  [][ \A c \in Clients :
        ( /\ last'.op = "handleSaveAll" /\ last'.uid = SessionOf[c]
          /\ last'.outcome = "Success" ) =>
          \A k \in DOMAIN settings[c] \ EditedBy[c] :
             /\ k \in DOMAIN system_settings
             /\ settings[c][k] = system_settings[k].setting_value
    ]_vars

\* C27 (as claimed): with A and B holding views loaded from the same store
\* state, once A has changed its key and saved, a batch save of B, who edits
\* another key only, leaves A's value in the store: handleSaveAll never
\* changes the stored value of a key the saving client did not edit.
C27_SaveAllKeepsOthersKeys ==
  [][ \A c \in Clients :
        (last'.op = "handleSaveAll" /\ last'.uid = SessionOf[c]) =>
          \A k \in DOMAIN system_settings \ EditedBy[c] :
             /\ k \in DOMAIN system_settings'
             /\ system_settings'[k].setting_value = system_settings[k].setting_value
    ]_vars

\* ------------------------------------------------- failure and retry
\* C25 (as claimed): every mutation is safe to retry: a call that reports an
\* error leaves identities, grants and settings as they were before the call
\* (for a permission save: the identity's grants as the call found them), and
\* a permission save that reports success leaves exactly the set it was given,
\* so that running it again changes nothing.
C25_RetrySafe ==
  [][ /\ ( /\ last'.outcome = "Error"
           /\ last'.op \in {"handleSubmit", "handleToggleStatus", "handleDeleteUser"} )
         => UNCHANGED << admin_users, admin_user_permissions, system_settings >>
      /\ (saving # NULL /\ last'.op = "saveUserPermissions") =>
           GrantsOf(admin_user_permissions', saving.selectedUser) =
             IF last'.outcome = "Error" THEN saving.before ELSE saving.selectedPermissions
    ]_vars

\* C26 (as claimed): when the delete or the insert of saveUserPermissions
\* fails, the call reports failure and the identity's grants are what they
\* were before the call; it never reports success after a failed step.
C26_SaveFailureRestores ==
  [][ /\ (saving = NULL /\ last'.op = "saveUserPermissions") =>
           \A selectedUser \in UserIds, selectedPermissions \in SelectedInputs :
             saveUserPermissions_delete(last'.uid, selectedUser, selectedPermissions, FALSE)
               => last'.outcome # "Success"
      /\ (saving # NULL /\ last'.op = "saveUserPermissions") =>
           \A ok \in BOOLEAN :
             ( /\ saveUserPermissions_insert(ok)
               /\ (saving.deleteError \/ ~ok \/ last'.outcome = "Error") ) =>
               /\ last'.outcome = "Error"
               /\ GrantsOf(admin_user_permissions', saving.selectedUser) = saving.before
    ]_vars

\* ------------------------------------------------ update without password
\* C28: an identity update submitted with the password field empty leaves the
\* stored credential hash of that identity as it was; the update changes
\* nothing but the identity's handle, email, role and update timestamp.
C28_EmptyPasswordKeepsHash ==
  [][ (last'.op = "handleSubmit" /\ admin_users' # admin_users) =>
        \A editingUser \in UserIds, auditOk \in BOOLEAN :
          \A formData \in { f \in FormData : f.password = "" } :
            handleSubmit(last'.uid, editingUser, formData, auditOk) =>
              /\ DOMAIN admin_users' = DOMAIN admin_users
              /\ \A i \in DOMAIN admin_users :
                    IF i = editingUser
                    THEN /\ admin_users'[i].password_hash = admin_users[i].password_hash
                         /\ admin_users'[i].id = admin_users[i].id
                         /\ admin_users'[i].is_active = admin_users[i].is_active
                         /\ admin_users'[i].created_at = admin_users[i].created_at
                    ELSE admin_users'[i] = admin_users[i]
    ]_vars

\* admin1 was given another handle by an update and still has the seeded hash
C28_Witness ==
  /\ last.op = "handleSubmit" /\ last.outcome = "Success"
  /\ 2 \in DOMAIN admin_users
  /\ admin_users[2].username # SeedUsers[2].username
  /\ admin_users[2].updated_at > SeedUsers[2].updated_at
  /\ admin_users[2].password_hash = SeedUsers[2].password_hash

\* ------------------------------------------------ references to identities
\* the identity i is named as an actor, a last editor or a granter
Referenced(i) ==
  \/ \E n \in 1..Len(audit_logs) : audit_logs[n].user_id = i
  \/ \E k \in DOMAIN system_settings : system_settings[k].updated_by = i
  \/ \E r \in admin_user_permissions : r.granted_by = i

\* C29: in every reachable state every actor of an audit record, last editor
\* of a setting and granter of a grant that is not null is an existing
\* identity; and a delete of an identity that is still referenced so, or of
\* the acting identity itself, reports an error when the actor may delete at
\* all and leaves identities, grants, settings and audit records unchanged.
C29_ReferencesExist ==
  /\ [](\A i \in UserIds : Referenced(i) => i \in DOMAIN admin_users)
  /\ [][ last'.op = "handleDeleteUser" =>
           \A userId \in UserIds, auditOk \in BOOLEAN :
             ( /\ Referenced(userId) \/ userId = last'.uid
               /\ handleDeleteUser(last'.uid, userId, auditOk) ) =>
               /\ UNCHANGED tables
               /\ ManageAllUsers(last'.uid) => last'.outcome = "Error"
       ]_vars

\* a second super admin, created by superadmin, was refused a delete while
\* superadmin, the actor of the audit record of that create, exists
C29_Witness ==
  /\ last.op = "handleDeleteUser" /\ last.outcome = "Error" /\ last.uid = 4
  /\ Referenced(1) /\ 1 \in DOMAIN admin_users
  /\ 4 \in DOMAIN admin_users /\ ~Referenced(4)

\* ------------------------------------------------------- stale toggles
\* C30: handleToggleStatus stores the negation of the flag shown in the list
\* row it was called from, whatever the store holds by then: a toggle from a
\* row fetched as active leaves the identity inactive even when an earlier
\* toggle had deactivated it already, and every toggle that updates the row
\* appends one audit record of its own, an UPDATE of that identity.
C30_ToggleNegatesFetched ==
  [][ (last'.op = "handleToggleStatus" /\ last'.outcome = "Success") =>
        \A userId \in UserIds, currentStatus \in BOOLEAN, auditOk \in BOOLEAN :
          ( /\ handleToggleStatus(last'.uid, userId, currentStatus, auditOk)
            /\ ManageAllUsers(last'.uid) /\ userId \in DOMAIN admin_users ) =>
            /\ admin_users'[userId].is_active = ~currentStatus
            /\ Len(Appended) = 1
            /\ Appended[1].action = "UPDATE"
            /\ Appended[1].record_id = ToString(userId)
            /\ Appended[1].new_values.is_active = ~currentStatus
    ]_vars

\* admin1, fetched as active, was toggled twice: both updates wrote inactive
C30_Witness ==
  /\ last.op = "handleToggleStatus" /\ last.outcome = "Success"
  /\ Len(audit_logs) = 2 /\ audit_logs[1].created_at < audit_logs[2].created_at
  /\ \A n \in 1..2 : /\ audit_logs[n].action = "UPDATE"
                     /\ audit_logs[n].record_id = "2"
                     /\ audit_logs[n].new_values.is_active = FALSE
  /\ ~admin_users[2].is_active

====
